---- MODULE Spec2Model ----
(***************************************************************************)
(* day-rater-server: a journaling API (express + pg + zod) in three        *)
(* deployment variants that share five endpoints:                          *)
(*   "anon"   src/unnamed/part_000      no auth, one global tenant         *)
(*   "fetch"  src/server.js 1-191       bearer token resolved with fetch   *)
(*   "client" src/server.js 193-423     authenticate middleware (supabase  *)
(*                                      client), iv / badge / color        *)
(* The entry table, the handlers, the validators, the SQL statements and   *)
(* the score-to-color mapper are modelled from the source.                 *)
(***************************************************************************)
EXTENDS Integers, Sequences, FiniteSets, TLC

(***************************************************************************)
(* IEEE-754 binary64 arithmetic, as far as scoreToColor uses it.  A        *)
(* non-negative value is [bits, exp]: the natural number written by bits   *)
(* (most significant first), times 2^exp.  Zero has no bits.               *)
(***************************************************************************)
MantissaBits == 53

\* Bit strings are handled in chunks whose products fit 32-bit integers.
ChunkBits == 2^4

ChunkBase == 2^ChunkBits

\* quotient bits computed past the binary point: more than a mantissa
DivisionChunks == (MantissaBits + 27) \div ChunkBits

\* bits without its leading zeros
StripZeros(bits) ==
  IF \A i \in 1..Len(bits) : bits[i] = 0 THEN <<>>
  ELSE SubSeq(bits,
              CHOOSE i \in 1..Len(bits) :
                  bits[i] = 1 /\ \A j \in 1..(i - 1) : bits[j] = 0,
              Len(bits))

Zeros(n) == [i \in 1..n |-> 0]

RECURSIVE BitsToNat(_)
BitsToNat(bits) ==
  IF bits = <<>> THEN 0
  ELSE 2 * BitsToNat(SubSeq(bits, 1, Len(bits) - 1)) + bits[Len(bits)]

RECURSIVE NatToBits(_)
NatToBits(n) ==
  IF n = 0 THEN <<>> ELSE Append(NatToBits(n \div 2), n % 2)

\* n < 2^width written on exactly width bits
NatToWidth(n, width) ==
  Zeros(width - Len(NatToBits(n))) \o NatToBits(n)

\* the chunk of a bit string that ends at position hi starts here
ChunkLo(hi) == IF hi > ChunkBits THEN hi - ChunkBits + 1 ELSE 1

ChunkDiff(a, b, hi, borrow) ==
  BitsToNat(SubSeq(a, ChunkLo(hi), hi)) - BitsToNat(SubSeq(b, ChunkLo(hi), hi)) - borrow

\* a - b on bit strings of one length, a >= b: chunk by chunk from the right
RECURSIVE SubFrom(_, _, _, _)
SubFrom(a, b, hi, borrow) ==
  IF hi = 0 THEN <<>>
  ELSE IF ChunkDiff(a, b, hi, borrow) < 0
       THEN SubFrom(a, b, ChunkLo(hi) - 1, 1)
            \o NatToWidth(ChunkDiff(a, b, hi, borrow) + ChunkBase, ChunkBits)
       ELSE SubFrom(a, b, ChunkLo(hi) - 1, 0)
            \o NatToWidth(ChunkDiff(a, b, hi, borrow), hi - ChunkLo(hi) + 1)

BitsSub(a, b) == SubFrom(a, b, Len(a), 0)

\* a + 1 on a bit string; the result is one bit longer when a is all ones
BitsInc(a) ==
  IF \A i \in 1..Len(a) : a[i] = 1 THEN <<1>> \o Zeros(Len(a))
  ELSE LET last0 == CHOOSE i \in 1..Len(a) :
                        a[i] = 0 /\ \A j \in (i + 1)..Len(a) : a[j] = 1
       IN  [i \in 1..Len(a) |->
              IF i < last0 THEN a[i] ELSE IF i = last0 THEN 1 ELSE 0]

\* round to nearest, ties to even, to a 53-bit significand
RoundToDouble(bits, exp, sticky) ==
  LET sig == StripZeros(bits)
      nsig == Len(sig)
  IN  IF nsig <= MantissaBits THEN [bits |-> sig, exp |-> exp]
      ELSE LET keep == SubSeq(sig, 1, MantissaBits)
               guard == sig[MantissaBits + 1]
               rest == sticky \/ \E i \in (MantissaBits + 2)..nsig : sig[i] = 1
               up == guard = 1 /\ (rest \/ keep[MantissaBits] = 1)
               rounded == IF up THEN BitsInc(keep) ELSE keep
               rexp == exp + (nsig - MantissaBits)
           IN  IF Len(rounded) > MantissaBits
               THEN [bits |-> SubSeq(rounded, 1, MantissaBits), exp |-> rexp + 1]
               ELSE [bits |-> rounded, exp |-> rexp]

\* the fraction bits of rem / b, k chunks of them, and the last remainder
RECURSIVE FracBits(_, _, _)
FracBits(rem, b, k) ==
  IF k = 0 THEN [bits |-> <<>>, rem |-> rem]
  ELSE LET nxt == FracBits((rem * ChunkBase) % b, b, k - 1)
       IN  [bits |-> NatToWidth((rem * ChunkBase) \div b, ChunkBits) \o nxt.bits,
            rem |-> nxt.rem]

\* the double a / b of two small naturals, b > 0
DoubleDiv(a, b) ==
  LET frac == FracBits(a % b, b, DivisionChunks)
  IN  RoundToDouble(NatToBits(a \div b) \o frac.bits,
                    -(DivisionChunks * ChunkBits), frac.rem # 0)

DoubleOne == [bits |-> <<1>>, exp |-> 0]

\* x and y written with one exponent and one length
Aligned(x, y) ==
  LET aexp == IF x.exp < y.exp THEN x.exp ELSE y.exp
      xb == x.bits \o Zeros(x.exp - aexp)
      yb == y.bits \o Zeros(y.exp - aexp)
      alen == IF Len(xb) > Len(yb) THEN Len(xb) ELSE Len(yb)
  IN  [x |-> Zeros(alen - Len(xb)) \o xb, y |-> Zeros(alen - Len(yb)) \o yb,
       exp |-> aexp]

\* the double x - y, x >= y >= 0
DoubleSub(x, y) ==
  LET al == Aligned(x, y)
  IN  RoundToDouble(BitsSub(al.x, al.y), al.exp, FALSE)

\* the double 255 * x: 256 x - x, rounded once
DoubleTimes255(x) ==
  DoubleSub([bits |-> x.bits, exp |-> x.exp + 8], x)

\* Math.round of a non-negative double: floor(x + 1/2)
MathRound(x) ==
  LET cut == Len(x.bits) + x.exp     \* bits left of the binary point
  IN  IF x.exp >= 0 THEN BitsToNat(x.bits \o Zeros(x.exp))
      ELSE IF cut < 0 THEN 0
      ELSE BitsToNat(SubSeq(x.bits, 1, cut)) + x.bits[cut + 1]

(***************************************************************************)
(* scoreToColor (client variant), on integer scores.                       *)
(***************************************************************************)
MaxChannel == 255

MidScore == 50

TopScore == 100

\* Math.max(0, Math.min(100, score))
Clamp(x) ==
  LET m == IF x < TopScore THEN x ELSE TopScore
  IN  IF m > 0 THEN m ELSE 0

scoreToColorChannels(rawScore) ==
  LET score == Clamp(rawScore)
  IN  IF score <= MidScore
      THEN LET t == DoubleDiv(score, MidScore)
           IN  <<MaxChannel, MathRound(DoubleTimes255(t)), 0>>
      ELSE LET t == DoubleDiv(score - MidScore, MidScore)
           IN  <<MathRound(DoubleTimes255(DoubleSub(DoubleOne, t))), MaxChannel, 0>>

(***************************************************************************)
(* JavaScript values of a request (JSON body, query string, path).  A      *)
(* string is the sequence of its characters.  A number is                  *)
(*   [k |-> "int", v |-> n]    the integer n (within 32 bits)              *)
(*   [k |-> "half", v |-> n]   n + 1/2, a number that is no integer        *)
(*   [k |-> "big", v |-> 0]    a positive integer beyond 32 bits           *)
(*   [k |-> "nan", v |-> 0]    NaN                                         *)
(***************************************************************************)
NumInt(n) == [k |-> "int", v |-> n]

NumHalf(n) == [k |-> "half", v |-> n]

NumBig == [k |-> "big", v |-> 0]

NumNaN == [k |-> "nan", v |-> 0]

JUndefined == [ty |-> "undefined", b |-> FALSE, num |-> NumNaN, str |-> <<>>]

JNull == [ty |-> "null", b |-> FALSE, num |-> NumNaN, str |-> <<>>]

JBool(b) == [ty |-> "boolean", b |-> b, num |-> NumNaN, str |-> <<>>]

JNum(num) == [ty |-> "number", b |-> FALSE, num |-> num, str |-> <<>>]

JStr(cs) == [ty |-> "string", b |-> FALSE, num |-> NumNaN, str |-> cs]

DigitChars == <<"0", "1", "2", "3", "4", "5", "6", "7", "8", "9">>

IsDigit(c) == \E i \in 1..Len(DigitChars) : DigitChars[i] = c

DigitValue(c) == (CHOOSE i \in 1..Len(DigitChars) : DigitChars[i] = c) - 1

AllDigits(cs) == cs # <<>> /\ \A i \in 1..Len(cs) : IsDigit(cs[i])

RECURSIVE DecimalValue(_)
DecimalValue(cs) ==
  IF cs = <<>> THEN 0
  ELSE 10 * DecimalValue(SubSeq(cs, 1, Len(cs) - 1)) + DigitValue(cs[Len(cs)])

\* digit strings up to this length stay within 32 bits: 2^31 has ten digits
SafeDigits == 10 - 1

Negate(num) ==
  IF num.k = "int" THEN NumInt(-num.v)
  ELSE IF num.k = "half" THEN NumHalf(-num.v - 1)
  ELSE num

\* StringToNumber on unsigned decimal literals: digits, or digits "." "5"
UnsignedToNumber(cs) ==
  IF AllDigits(cs)
  THEN (IF Len(cs) <= SafeDigits THEN NumInt(DecimalValue(cs)) ELSE NumBig)
  ELSE IF /\ Len(cs) >= 3
          /\ cs[Len(cs)] = "5"
          /\ cs[Len(cs) - 1] = "."
          /\ AllDigits(SubSeq(cs, 1, Len(cs) - 2))
          /\ Len(cs) - 2 <= SafeDigits
       THEN NumHalf(DecimalValue(SubSeq(cs, 1, Len(cs) - 2)))
       ELSE NumNaN

\* Number(string): "" is 0, a decimal literal its value, anything else NumNaN
StringToNumber(cs) ==
  IF cs = <<>> THEN NumInt(0)
  ELSE IF Head(cs) = "-" THEN Negate(UnsignedToNumber(Tail(cs)))
  ELSE UnsignedToNumber(cs)

\* Number(value)
Number(val) ==
  CASE val.ty = "undefined" -> NumNaN
    [] val.ty = "null" -> NumInt(0)
    [] val.ty = "boolean" -> (IF val.b THEN NumInt(1) ELSE NumInt(0))
    [] val.ty = "number" -> val.num
    [] val.ty = "string" -> StringToNumber(val.str)

\* Number.isInteger
IsInteger(num) == num.k \in {"int", "big"}

\* a value in a condition: if (x), x || y
Truthy(val) ==
  CASE val.ty = "undefined" -> FALSE
    [] val.ty = "null" -> FALSE
    [] val.ty = "boolean" -> val.b
    [] val.ty = "number" -> ~(val.num.k = "nan" \/ val.num = NumInt(0))
    [] val.ty = "string" -> val.str # <<>>

(***************************************************************************)
(* zod schemas                                                             *)
(***************************************************************************)
MinScore == 1

MaxScore == 100

MaxText == 1000

MaxIv == 32

MaxBadge == 50

\* a faulty ScoreSchemaOk: the lower bound of the score is left out
ScoreSchemaNoMin(num) == num.k = "int" /\ num.v <= MaxScore

\* z.number().int().min(1).max(100)
ScoreSchemaOk(num) ==
  num.k = "int" /\ MinScore <= num.v /\ num.v <= MaxScore

\* z.string().max(n)
StringSchemaOk(val, n) == val.ty = "string" /\ Len(val.str) <= n

\* z.string().max(n).optional()
OptionalStringOk(val, n) == val.ty = "undefined" \/ StringSchemaOk(val, n)

\* z.string(): any string
AnyStringOk(val) == val.ty = "string"

DateLen == 10

\* isoDateSchema: z.string().regex(/^\d{4}-\d{2}-\d{2}$/)
isoDateSchemaOk(val) ==
  /\ val.ty = "string"
  /\ Len(val.str) = DateLen
  /\ \A i \in 1..DateLen :
       IF i \in {5, 8} THEN val.str[i] = "-" ELSE IsDigit(val.str[i])

(***************************************************************************)
(* The DATE column: a date string that passed isoDateSchema is read by the *)
(* store as <<year, month, day>>, or refused when it names no day.         *)
(***************************************************************************)
DateFields(cs) ==
  <<DecimalValue(SubSeq(cs, 1, 4)), DecimalValue(SubSeq(cs, 6, 7)),
    DecimalValue(SubSeq(cs, 9, 10))>>

IsLeap(y) == (y % 4 = 0 /\ y % 100 # 0) \/ y % 400 = 0

DaysInMonth(y, m) ==
  IF m = 2 THEN (IF IsLeap(y) THEN 29 ELSE 28)
  ELSE IF m \in {4, 6, 9, 11} THEN 30 ELSE 31

DateInputOk(cs) ==
  LET ymd == DateFields(cs)
  IN  /\ ymd[1] >= 1
      /\ ymd[2] \in 1..12
      /\ ymd[3] >= 1
      /\ ymd[3] <= DaysInMonth(ymd[1], ymd[2])

\* d1 <= d2 on <<year, month, day>>
DateLeq(d1, d2) ==
  \/ d1[1] < d2[1]
  \/ d1[1] = d2[1] /\ d1[2] < d2[2]
  \/ d1[1] = d2[1] /\ d1[2] = d2[2] /\ d1[3] <= d2[3]

(***************************************************************************)
(* scoreToColor's result, the string rgb(r,g,b)                            *)
(***************************************************************************)
RECURSIVE NatToDecimal(_)
NatToDecimal(n) ==
  IF n < 10 THEN <<DigitChars[n + 1]>>
  ELSE Append(NatToDecimal(n \div 10), DigitChars[(n % 10) + 1])

scoreToColor(score) ==
  LET ch == scoreToColorChannels(score)
  IN  <<"r", "g", "b", "(">> \o NatToDecimal(ch[1]) \o <<",">>
        \o NatToDecimal(ch[2]) \o <<",">> \o NatToDecimal(ch[3]) \o <<")">>

(***************************************************************************)
(* The entries table.  A row is a record of its columns; a TEXT column is  *)
(* [null, str].  The table is kept in insertion order, which is the order  *)
(* of the SERIAL ids.  The variants without a column leave it NULL (iv,    *)
(* badge, color) or NoUser (user_id).                                      *)
(***************************************************************************)
SqlNull == [null |-> TRUE, str |-> <<>>]

SqlText(cs) == [null |-> FALSE, str |-> cs]

NoUser == "-"

Row(id, user, date, score, text, iv, badge, color) ==
  [id |-> id, user_id |-> user, date |-> date, score |-> score, text |-> text,
   iv |-> iv, badge |-> badge, color |-> color]

\* what a statement gives back: done or refused, the table after it, its rows
Stmt(ok, table, rows) == [ok |-> ok, table |-> table, rows |-> rows]

\* score INTEGER NOT NULL CHECK(score BETWEEN 1 AND 100), of the variants that
\* declare the table (checked); the anon variant declares none
ScoreCheckOk(checked, score) == checked => (score >= 1 /\ score <= 100)

\* INSERT INTO entries (...) VALUES (...) RETURNING *
InsertEntry(table, checked, id, user, dateStr, score, text, iv, badge, color) ==
  IF ~DateInputOk(dateStr) \/ ~ScoreCheckOk(checked, score) THEN Stmt(FALSE, table, <<>>)
  ELSE LET newRow == Row(id, user, DateFields(dateStr), score, text, iv, badge, color)
       IN  Stmt(TRUE, Append(table, newRow), <<newRow>>)

Reverse(rows) == [i \in 1..Len(rows) |-> rows[Len(rows) + 1 - i]]

DatesOf(rows) == {rows[i].date : i \in 1..Len(rows)}

LatestDate(dates) == CHOOSE d \in dates : \A e \in dates : DateLeq(e, d)

\* ORDER BY date DESC, id DESC of rows that come in id order
RECURSIVE ByDateDesc(_, _)
ByDateDesc(rows, dates) ==
  IF dates = {} THEN <<>>
  ELSE Reverse(SelectSeq(rows, LAMBDA r : r.date = LatestDate(dates)))
         \o ByDateDesc(rows, dates \ {LatestDate(dates)})

OrderByDateDescIdDesc(rows) == ByDateDesc(rows, DatesOf(rows))

\* a faulty LimitCount: one row short
LimitCountShort(lim) == IF lim.v > 0 THEN lim.v - 1 ELSE 0

\* LIMIT lim: the count a LIMIT clause takes from the number written into it
LimitCount(lim) == IF lim.k = "half" THEN lim.v + 1 ELSE lim.v

LimitOk(lim) == lim.k \in {"int", "half"} /\ lim.v >= 0

\* the date filters of the WHERE clause; a bound is a string or undefined
DateParamOk(bound) == ~Truthy(bound) \/ DateInputOk(bound.str)

InDateRange(r, from, to) ==
  /\ (Truthy(from) => DateLeq(DateFields(from.str), r.date))
  /\ (Truthy(to) => DateLeq(r.date, DateFields(to.str)))

\* SELECT * FROM entries WHERE ... ORDER BY date DESC, id DESC LIMIT lim;
\* scoped is the user_id = $1 clause of the auth variants
SelectEntries(table, scoped, user, from, to, lim) ==
  IF ~(DateParamOk(from) /\ DateParamOk(to) /\ LimitOk(lim))
  THEN Stmt(FALSE, table, <<>>)
  ELSE LET hits == SelectSeq(table, LAMBDA r :
                      (scoped => r.user_id = user) /\ InDateRange(r, from, to))
           sorted == OrderByDateDescIdDesc(hits)
           take == IF LimitCount(lim) < Len(sorted) THEN LimitCount(lim) ELSE Len(sorted)
       IN  Stmt(TRUE, table, SubSeq(sorted, 1, take))

ScoresOf(rows) == {rows[i].score : i \in 1..Len(rows)}

RECURSIVE SumScores(_, _)
SumScores(rows, scores) ==
  IF scores = {} THEN 0
  ELSE LET sc == CHOOSE x \in scores : TRUE
       IN  sc * Len(SelectSeq(rows, LAMBDA r : r.score = sc))
             + SumScores(rows, scores \ {sc})

NoStats == [count |-> 0, null |-> TRUE, avg10 |-> 0, min |-> 0, max |-> 0]

\* COUNT(*), ROUND(AVG(score), 1), MIN(score), MAX(score); avg10 is ten times
\* the rounded average; the three aggregates are NULL over no rows
Aggregates(rows) ==
  IF Len(rows) = 0 THEN NoStats
  ELSE [count |-> Len(rows), null |-> FALSE,
        avg10 |-> (20 * SumScores(rows, ScoresOf(rows)) + Len(rows)) \div (2 * Len(rows)),
        min |-> CHOOSE x \in ScoresOf(rows) : \A y \in ScoresOf(rows) : x <= y,
        max |-> CHOOSE x \in ScoresOf(rows) : \A y \in ScoresOf(rows) : x >= y]

\* SELECT COUNT(*), ... FROM entries [WHERE user_id = $1]
StatsQuery(table, scoped, user) ==
  Aggregates(SelectSeq(table, LAMBDA r : scoped => r.user_id = user))

\* an id parameter as the integer column takes it
IdParamOk(num) == num.k = "int"

\* a faulty SetFields: the text is written whether or not it is named
SetFieldsAndText(r, fields, vals) ==
  [r EXCEPT !.score = IF "score" \in fields THEN vals.score ELSE @,
            !.text = vals.text,
            !.date = IF "date" \in fields THEN DateFields(vals.date) ELSE @,
            !.iv = IF "iv" \in fields THEN vals.iv ELSE @,
            !.badge = IF "badge" \in fields THEN vals.badge ELSE @,
            !.color = IF "color" \in fields THEN vals.color ELSE @]

\* the SET clause: fields are the columns named, vals their parameters
SetFields(r, fields, vals) ==
  [r EXCEPT !.score = IF "score" \in fields THEN vals.score ELSE @,
            !.text = IF "text" \in fields THEN vals.text ELSE @,
            !.date = IF "date" \in fields THEN DateFields(vals.date) ELSE @,
            !.iv = IF "iv" \in fields THEN vals.iv ELSE @,
            !.badge = IF "badge" \in fields THEN vals.badge ELSE @,
            !.color = IF "color" \in fields THEN vals.color ELSE @]

\* UPDATE entries SET ... WHERE id = $n [AND user_id = $m] RETURNING *
UpdateEntries(table, checked, scoped, user, id, fields, vals) ==
  IF \/ ~IdParamOk(id)
     \/ "date" \in fields /\ ~DateInputOk(vals.date)
     \/ "score" \in fields /\ ~ScoreCheckOk(checked, vals.score)
  THEN Stmt(FALSE, table, <<>>)
  ELSE LET upd == [i \in 1..Len(table) |->
                     IF table[i].id = id.v /\ (scoped => table[i].user_id = user)
                     THEN SetFields(table[i], fields, vals) ELSE table[i]]
       IN  Stmt(TRUE, upd,
                SelectSeq(upd, LAMBDA r : r.id = id.v /\ (scoped => r.user_id = user)))

\* a faulty DeleteEntries: the user_id clause is left out
DeleteEntriesAnyUser(table, scoped, user, id) ==
  IF ~IdParamOk(id) THEN Stmt(FALSE, table, <<>>)
  ELSE Stmt(TRUE, SelectSeq(table, LAMBDA r : r.id # id.v), <<>>)

\* DELETE FROM entries WHERE id = $1 [AND user_id = $2]
DeleteEntries(table, scoped, user, id) ==
  IF ~IdParamOk(id) THEN Stmt(FALSE, table, <<>>)
  ELSE Stmt(TRUE,
            SelectSeq(table, LAMBDA r : ~(r.id = id.v /\ (scoped => r.user_id = user))),
            <<>>)

(***************************************************************************)
(* Requests.  An Authorization header is absent, or the sequence of the    *)
(* words a single space separates in it ("Bearer abc" is <<"Bearer",       *)
(* "abc">>, the empty string <<"">>).  The identity service knows two      *)
(* tokens and answers a request for a token by resolving it, rejecting it  *)
(* or failing (the call throws).                                           *)
(***************************************************************************)
NoHeader == [present |-> FALSE, words |-> <<>>]

Header(words) == [present |-> TRUE, words |-> words]

TokenUsers == [tokA |-> "A", tokB |-> "B"]

ValidTokens == DOMAIN TokenUsers

UserOf(token) == IF token \in ValidTokens THEN TokenUsers[token] ELSE NoUser

IdentityOutcomes(token) ==
  IF token \in ValidTokens THEN {"resolved", "threw"} ELSE {"rejected", "threw"}

EmptyBody ==
  [score |-> JUndefined, text |-> JUndefined, date |-> JUndefined,
   iv |-> JUndefined, badge |-> JUndefined, color |-> JUndefined]

EmptyQuery == [from |-> JUndefined, to |-> JUndefined, limit |-> JUndefined]

Request(id, body, query) == [id |-> id, body |-> body, query |-> query]

\* what a handler ends in: the response, and the table and the id sequence
\* after it.  err names where an error was raised ("none" without one), stmt
\* whether a statement went to the store, lim the row limit a list used.
Outcome(status, kind, rows, stats, msg, err, stmt, table, nid, lim) ==
  [status |-> status, kind |-> kind, rows |-> rows, stats |-> stats, msg |-> msg,
   err |-> err, stmt |-> stmt, table |-> table, nextId |-> nid, lim |-> lim]

StatusOk == 200

StatusBadRequest == 400

StatusUnauthorized == 401

\* app.use((err, req, res, next) => res.status(400).json({error: err.message}))
ErrorHandler(msg, err, stmt, table, nid) ==
  Outcome(StatusBadRequest, "error", <<>>, NoStats, msg, err, stmt, table, nid, NumNaN)

\* res.json(value)
Json(kind, rows, stats, table, nid, lim) ==
  Outcome(StatusOk, kind, rows, stats, "", "none", TRUE, table, nid, lim)

(***************************************************************************)
(* The handlers' bodies past authentication, as functions of the table,    *)
(* the id sequence, the resolved user and the request.                     *)
(***************************************************************************)
\* x ?? ""
OrEmpty(val) == IF val.ty \in {"undefined", "null"} THEN JStr(<<>>) ELSE val

\* x || null, for a column
OrNull(val) == IF Truthy(val) THEN SqlText(val.str) ELSE SqlNull

\* anon and fetch variants: entrySchema.parse({score: Number(score), text: text ?? "", date})
EntrySchemaOk(body) ==
  /\ ScoreSchemaOk(Number(body.score))
  /\ StringSchemaOk(OrEmpty(body.text), MaxText)
  /\ (body.date.ty = "undefined" \/ isoDateSchemaOk(body.date))

\* client variant: entrySchema.parse({score: Number(score), text, iv, badge, color, date})
ClientEntrySchemaOk(body) ==
  /\ ScoreSchemaOk(Number(body.score))
  /\ OptionalStringOk(body.text, MaxText)
  /\ OptionalStringOk(body.iv, MaxIv)
  /\ OptionalStringOk(body.badge, MaxBadge)
  /\ (body.color.ty = "undefined" \/ AnyStringOk(body.color))
  /\ (body.date.ty = "undefined" \/ isoDateSchemaOk(body.date))

\* POST /entries of the anon and fetch variants, past authentication
PostBody(table, nid, checked, user, body, today) ==
  IF ~EntrySchemaOk(body) THEN ErrorHandler("zod", "validation", FALSE, table, nid)
  ELSE LET ins == InsertEntry(table, checked, nid, user,
                              (IF Truthy(body.date) THEN body.date.str ELSE today),
                              Number(body.score).v, SqlText(OrEmpty(body.text).str),
                              SqlNull, SqlNull, SqlNull)
       IN  IF ins.ok THEN Json("row", ins.rows, NoStats, ins.table, nid + 1, NumNaN)
           ELSE ErrorHandler("store", "store", TRUE, table, nid)

\* POST /entries of the client variant, past authenticate
ClientPostBody(table, nid, user, body, today) ==
  IF ~ClientEntrySchemaOk(body) THEN ErrorHandler("zod", "validation", FALSE, table, nid)
  ELSE LET cins == InsertEntry(table, TRUE, nid, user,
                               (IF Truthy(body.date) THEN body.date.str ELSE today),
                               Number(body.score).v,
                               SqlText((IF body.text.ty = "undefined" THEN <<>>
                                        ELSE body.text.str)),
                               OrNull(body.iv), OrNull(body.badge),
                               SqlText((IF Truthy(body.color) THEN body.color.str
                                        ELSE scoreToColor(Number(body.score).v))))
       IN  IF cins.ok THEN Json("row", cins.rows, NoStats, cins.table, nid + 1, NumNaN)
           ELSE ErrorHandler("store", "store", TRUE, table, nid)

DefaultLimit == 365

MaxLimit == 1000

\* Math.min(x, n), n an integer
MathMin(num, n) ==
  IF num.k = "big" THEN NumInt(n)
  ELSE IF num.v >= n THEN NumInt(n)
  ELSE num

\* a faulty RowLimit: the cap is left out
RowLimitUncapped(limit) ==
  IF Truthy(JNum(Number(limit))) THEN Number(limit) ELSE NumInt(DefaultLimit)

\* Math.min(Number(limit) || 365, 1000)
RowLimit(limit) ==
  MathMin((IF Truthy(JNum(Number(limit))) THEN Number(limit) ELSE NumInt(DefaultLimit)),
          MaxLimit)

\* GET /entries, past authentication (all variants)
ListBody(table, nid, scoped, user, query) ==
  IF \/ Truthy(query.from) /\ ~isoDateSchemaOk(query.from)
     \/ Truthy(query.to) /\ ~isoDateSchemaOk(query.to)
  THEN ErrorHandler("zod", "validation", FALSE, table, nid)
  ELSE LET sel == SelectEntries(table, scoped, user, query.from, query.to,
                                RowLimit(query.limit))
       IN  IF sel.ok
           THEN Json("rows", sel.rows, NoStats, table, nid, RowLimit(query.limit))
           ELSE [ErrorHandler("store", "store", TRUE, table, nid)
                   EXCEPT !.lim = RowLimit(query.limit)]

\* GET /stats, past authentication (all variants)
StatsBody(table, nid, scoped, user) ==
  Json("stats", <<>>, StatsQuery(table, scoped, user), table, nid, NumNaN)

\* a faulty PutFields: the text counts as present unless it is null
PutFieldsLoose(body, withExtras, color) ==
  {f \in {"score", "date"} : body[f].ty # "undefined"}
    \cup {f \in {"text"} : body[f].ty # "null"}

\* the columns an update names, in the order the handler pushes them
PutFields(body, withExtras, color) ==
  {f \in {"score", "text", "date"} : body[f].ty # "undefined"}
    \cup (IF withExtras
          THEN {f \in {"iv", "badge"} : body[f].ty # "undefined"}
                 \cup (IF color.ty # "undefined" THEN {"color"} ELSE {})
          ELSE {})

\* the checks an update makes on the fields that are present
PutFieldsOk(body, withExtras, color) ==
  /\ (body.score.ty # "undefined" => ScoreSchemaOk(Number(body.score)))
  /\ (body.text.ty # "undefined" => StringSchemaOk(body.text, MaxText))
  /\ (body.date.ty # "undefined" => isoDateSchemaOk(body.date))
  /\ (withExtras =>
        /\ (body.iv.ty # "undefined" => StringSchemaOk(body.iv, MaxIv))
        /\ (body.badge.ty # "undefined" => StringSchemaOk(body.badge, MaxBadge))
        /\ (color.ty # "undefined" => AnyStringOk(color)))

\* the parameters of the SET clause
PutParams(body, color) ==
  [score |-> Number(body.score).v, text |-> SqlText(body.text.str),
   date |-> body.date.str, iv |-> SqlText(body.iv.str),
   badge |-> SqlText(body.badge.str), color |-> SqlText(color.str)]

\* the handler of PUT /entries/:id from its id check on; color is
\* payload.color as the handler has it when it builds the fields.  The
\* variants that scope by user are the ones that declare the table.
PutCommon(table, nid, scoped, user, idParam, body, withExtras, color) ==
  IF ~IsInteger(Number(JStr(idParam)))
  THEN ErrorHandler("Invalid id", "validation", FALSE, table, nid)
  ELSE IF ~PutFieldsOk(body, withExtras, color)
  THEN ErrorHandler("zod", "validation", FALSE, table, nid)
  ELSE IF PutFields(body, withExtras, color) = {}
  THEN Outcome(StatusBadRequest, "error", <<>>, NoStats, "No fields to update",
               "validation", FALSE, table, nid, NumNaN)
  ELSE LET upd == UpdateEntries(table, scoped, scoped, user, Number(JStr(idParam)),
                                PutFields(body, withExtras, color),
                                PutParams(body, color))
       IN  IF upd.ok
           THEN Json((IF upd.rows = <<>> THEN "norow" ELSE "row"), upd.rows, NoStats,
                     upd.table, nid, NumNaN)
           ELSE ErrorHandler("store", "store", TRUE, table, nid)

\* PUT /entries/:id of the anon and fetch variants, past authentication
PutBody(table, nid, scoped, user, idParam, body) ==
  PutCommon(table, nid, scoped, user, idParam, body, FALSE, JUndefined)

\* scoreToColor of a number that is not validated yet: an integer is clamped;
\* for NaN or a fraction the string is one the handler never stores, as the
\* check of the score fails next
ColorOfNumber(num) ==
  IF num.k = "int" THEN scoreToColor(num.v)
  ELSE IF num.k = "big" THEN scoreToColor(TopScore)
  ELSE <<"r", "g", "b", "(", "?", ")">>

\* PUT /entries/:id of the client variant, past authenticate: the color is
\* computed from the score when the score is given and the color is not
ClientPutBody(table, nid, user, idParam, body) ==
  PutCommon(table, nid, TRUE, user, idParam, body, TRUE,
            (IF body.score.ty # "undefined" /\ body.color.ty = "undefined"
             THEN JStr(ColorOfNumber(Number(body.score)))
             ELSE body.color))

\* a faulty DeleteBody: an error when the statement deleted no row
DeleteBodyStrict(table, nid, scoped, user, idParam) ==
  LET sdel == DeleteEntries(table, scoped, user, Number(JStr(idParam)))
  IN  IF sdel.ok /\ sdel.table # table
      THEN Json("success", <<>>, NoStats, sdel.table, nid, NumNaN)
      ELSE ErrorHandler("store", "store", TRUE, table, nid)

\* DELETE /entries/:id, past authentication (all variants)
DeleteBody(table, nid, scoped, user, idParam) ==
  LET del == DeleteEntries(table, scoped, user, Number(JStr(idParam)))
  IN  IF del.ok THEN Json("success", <<>>, NoStats, del.table, nid, NumNaN)
      ELSE ErrorHandler("store", "store", TRUE, table, nid)

(***************************************************************************)
(* State.                                                                  *)
(*   variant  the deployment that runs                                     *)
(*   store    the entries table                                            *)
(*   nextId   the next value of the id sequence                            *)
(*   owner    owner[id]: the identity the identity service resolved for    *)
(*            the request that created entry id (NoUser without auth)      *)
(*   conn     per connection, the request that waits for the identity      *)
(*            service                                                      *)
(*   last     the request that completed last, and its response           *)
(*   nreq     the requests received                                        *)
(*   call     a call of scoreToColor on its own: its argument, and the     *)
(*            channels it returned once it has                             *)
(***************************************************************************)
VARIABLES variant, store, nextId, owner, conn, last, nreq, call

vars == <<variant, store, nextId, owner, conn, last, nreq, call>>

MaxRequests == 3

MaxInflight == 2

Slots == 1..MaxInflight

Idle == [pc |-> "idle", route |-> "", hdr |-> NoHeader, token |-> ""]

Waiting(route, hdr, token) ==
  [pc |-> "auth", route |-> route, hdr |-> hdr, token |-> token]

NoRequest == Request(<<>>, EmptyBody, EmptyQuery)

NoResponse ==
  [seq |-> 0, route |-> "", hdr |-> NoHeader, idout |-> "", user |-> NoUser,
   req |-> NoRequest, status |-> 0, kind |-> "", rows |-> <<>>, stats |-> NoStats,
   msg |-> "", err |-> "none", stmt |-> FALSE, lim |-> NumNaN]

\* the response is sent: the request is the last one completed
Complete(route, hdr, idout, user, req, res) ==
  /\ last' = [seq |-> last.seq + 1, route |-> route, hdr |-> hdr, idout |-> idout,
              user |-> user, req |-> req, status |-> res.status, kind |-> res.kind,
              rows |-> res.rows, stats |-> res.stats, msg |-> res.msg,
              err |-> res.err, stmt |-> res.stmt, lim |-> res.lim]
  /\ store' = res.table
  /\ nextId' = res.nextId
  /\ owner' = IF res.nextId > nextId THEN Append(owner, user) ELSE owner
  /\ UNCHANGED <<variant, call>>

(***************************************************************************)
(* anon variant: each handler is one step                                  *)
(***************************************************************************)
AnonPostEntries(body, today) ==
  /\ variant = "anon" /\ nreq < MaxRequests
  /\ nreq' = nreq + 1
  /\ Complete("post", NoHeader, "", NoUser, Request(<<>>, body, EmptyQuery),
              PostBody(store, nextId, FALSE, NoUser, body, today))
  /\ UNCHANGED conn

AnonGetEntries(query) ==
  /\ variant = "anon" /\ nreq < MaxRequests
  /\ nreq' = nreq + 1
  /\ Complete("list", NoHeader, "", NoUser, Request(<<>>, EmptyBody, query),
              ListBody(store, nextId, FALSE, NoUser, query))
  /\ UNCHANGED conn

AnonGetStats ==
  /\ variant = "anon" /\ nreq < MaxRequests
  /\ nreq' = nreq + 1
  /\ Complete("stats", NoHeader, "", NoUser, NoRequest,
              StatsBody(store, nextId, FALSE, NoUser))
  /\ UNCHANGED conn

AnonPutEntry(idParam, body) ==
  /\ variant = "anon" /\ nreq < MaxRequests
  /\ nreq' = nreq + 1
  /\ Complete("put", NoHeader, "", NoUser, Request(idParam, body, EmptyQuery),
              PutBody(store, nextId, FALSE, NoUser, idParam, body))
  /\ UNCHANGED conn

AnonDeleteEntry(idParam) ==
  /\ variant = "anon" /\ nreq < MaxRequests
  /\ nreq' = nreq + 1
  /\ Complete("delete", NoHeader, "", NoUser, Request(idParam, EmptyBody, EmptyQuery),
              DeleteBody(store, nextId, FALSE, NoUser, idParam))
  /\ UNCHANGED conn

(***************************************************************************)
(* fetch variant: a handler calls getUserIdFromToken first, which checks   *)
(* the header and awaits the identity service; the handler goes on when    *)
(* the service has answered.                                               *)
(***************************************************************************)
\* authHeader?.startsWith("Bearer ")
StartsWithBearer(hdr) ==
  hdr.present /\ Len(hdr.words) >= 2 /\ hdr.words[1] = "Bearer"

\* a handler's call of getUserIdFromToken, up to its await fetch(...)
getUserIdFromToken(slot, route, hdr) ==
  /\ variant = "fetch" /\ nreq < MaxRequests
  /\ conn[slot].pc = "idle"
  /\ nreq' = nreq + 1
  /\ IF StartsWithBearer(hdr)
     THEN /\ conn' = [conn EXCEPT ![slot] = Waiting(route, hdr, hdr.words[2])]
          /\ UNCHANGED <<variant, store, nextId, owner, last, call>>
     ELSE /\ Complete(route, hdr, "", NoUser, NoRequest,
                      ErrorHandler("Missing token", "auth", FALSE, store, nextId))
          /\ UNCHANGED conn

\* getUserIdFromToken when the service has not resolved the token
FetchAuthError(idout, table, nid) ==
  ErrorHandler((IF idout = "rejected" THEN "Invalid token" ELSE "fetch failed"),
               "auth", FALSE, table, nid)

\* the rest of a fetch handler, once the identity service has answered
FetchResume(slot, route, idout, req, res) ==
  /\ variant = "fetch"
  /\ conn[slot].pc = "auth" /\ conn[slot].route = route
  /\ idout \in IdentityOutcomes(conn[slot].token)
  /\ Complete(route, conn[slot].hdr, idout,
              (IF idout = "resolved" THEN UserOf(conn[slot].token) ELSE NoUser), req,
              (IF idout = "resolved" THEN res
               ELSE FetchAuthError(idout, store, nextId)))
  /\ conn' = [conn EXCEPT ![slot] = Idle]
  /\ UNCHANGED nreq

FetchPostEntries(slot, idout, body, today) ==
  FetchResume(slot, "post", idout, Request(<<>>, body, EmptyQuery),
              PostBody(store, nextId, TRUE, UserOf(conn[slot].token), body, today))

FetchGetEntries(slot, idout, query) ==
  FetchResume(slot, "list", idout, Request(<<>>, EmptyBody, query),
              ListBody(store, nextId, TRUE, UserOf(conn[slot].token), query))

FetchGetStats(slot, idout) ==
  FetchResume(slot, "stats", idout, NoRequest,
              StatsBody(store, nextId, TRUE, UserOf(conn[slot].token)))

FetchPutEntry(slot, idout, idParam, body) ==
  FetchResume(slot, "put", idout, Request(idParam, body, EmptyQuery),
              PutBody(store, nextId, TRUE, UserOf(conn[slot].token), idParam, body))

FetchDeleteEntry(slot, idout, idParam) ==
  FetchResume(slot, "delete", idout, Request(idParam, EmptyBody, EmptyQuery),
              DeleteBody(store, nextId, TRUE, UserOf(conn[slot].token), idParam))

(***************************************************************************)
(* client variant: the authenticate middleware runs before each handler    *)
(***************************************************************************)
Unauthorized(msg, table, nid) ==
  Outcome(StatusUnauthorized, "error", <<>>, NoStats, msg, "auth", FALSE, table, nid,
          NumNaN)

\* authenticate, up to its await supabase.auth.getUser(token)
authenticate(slot, route, hdr) ==
  /\ variant = "client" /\ nreq < MaxRequests
  /\ conn[slot].pc = "idle"
  /\ nreq' = nreq + 1
  /\ IF ~hdr.present \/ hdr.words = <<"">>
     THEN /\ Complete(route, hdr, "", NoUser, NoRequest,
                      Unauthorized("Authorization Header fehlt", store, nextId))
          /\ UNCHANGED conn
     ELSE IF Len(hdr.words) < 2 \/ hdr.words[2] = ""
     THEN /\ Complete(route, hdr, "", NoUser, NoRequest,
                      Unauthorized("Token fehlt", store, nextId))
          /\ UNCHANGED conn
     ELSE /\ conn' = [conn EXCEPT ![slot] = Waiting(route, hdr, hdr.words[2])]
          /\ UNCHANGED <<variant, store, nextId, owner, last, call>>

\* authenticate when getUser has not resolved the token
ClientAuthError(idout, table, nid) ==
  Unauthorized((IF idout = "rejected" THEN "Ungültiger Token" ELSE "Auth Fehler"),
               table, nid)

\* the rest of authenticate and the handler, once getUser has answered
ClientResume(slot, route, idout, req, res) ==
  /\ variant = "client"
  /\ conn[slot].pc = "auth" /\ conn[slot].route = route
  /\ idout \in IdentityOutcomes(conn[slot].token)
  /\ Complete(route, conn[slot].hdr, idout,
              (IF idout = "resolved" THEN UserOf(conn[slot].token) ELSE NoUser), req,
              (IF idout = "resolved" THEN res
               ELSE ClientAuthError(idout, store, nextId)))
  /\ conn' = [conn EXCEPT ![slot] = Idle]
  /\ UNCHANGED nreq

ClientPostEntries(slot, idout, body, today) ==
  ClientResume(slot, "post", idout, Request(<<>>, body, EmptyQuery),
               ClientPostBody(store, nextId, UserOf(conn[slot].token), body, today))

ClientGetEntries(slot, idout, query) ==
  ClientResume(slot, "list", idout, Request(<<>>, EmptyBody, query),
               ListBody(store, nextId, TRUE, UserOf(conn[slot].token), query))

ClientGetStats(slot, idout) ==
  ClientResume(slot, "stats", idout, NoRequest,
               StatsBody(store, nextId, TRUE, UserOf(conn[slot].token)))

ClientPutEntry(slot, idout, idParam, body) ==
  ClientResume(slot, "put", idout, Request(idParam, body, EmptyQuery),
               ClientPutBody(store, nextId, UserOf(conn[slot].token), idParam, body))

ClientDeleteEntry(slot, idout, idParam) ==
  ClientResume(slot, "delete", idout, Request(idParam, EmptyBody, EmptyQuery),
               DeleteBody(store, nextId, TRUE, UserOf(conn[slot].token), idParam))

(***************************************************************************)
(* The requests the specifications draw.                                   *)
(***************************************************************************)
Date0314 == <<"2", "0", "2", "4", "-", "0", "3", "-", "1", "4">>

Date0315 == <<"2", "0", "2", "4", "-", "0", "3", "-", "1", "5">>

Date0316 == <<"2", "0", "2", "4", "-", "0", "3", "-", "1", "6">>

DateShort == <<"2", "0", "2", "4", "-", "3", "-", "5">>

DateNoDay == <<"2", "0", "2", "4", "-", "0", "2", "-", "3", "0">>

TextHi == <<"h", "i">>

LongText == [i \in 1..(MaxText + 1) |-> "x"]

LongIv == [i \in 1..(MaxIv + 1) |-> "x"]

ElevenDigits == <<"9", "9", "9", "9", "9", "9", "9", "9", "9", "9", "9">>

Body(score, text, date, iv, badge, color) ==
  [score |-> score, text |-> text, date |-> date, iv |-> iv, badge |-> badge,
   color |-> color]

U == JUndefined

Routes == {"post", "list", "stats", "put", "delete"}

Todays == {Date0315}

Headers ==
  {NoHeader, Header(<<"Bearer", "tokA">>), Header(<<"Bearer", "tokB">>),
   Header(<<"Bearer", "nope">>), Header(<<"Basic", "tokA">>), Header(<<"tokA">>),
   Header(<<"Bearer", "", "tokA">>)}

PostBodies ==
  {Body(JNum(NumInt(80)), JStr(TextHi), U, U, U, U),
   Body(JStr(<<"7">>), U, JStr(Date0314), U, U, U),
   Body(JBool(TRUE), JNull, U, U, U, U),
   Body(JNum(NumInt(50)), U, U, JStr(<<>>), JStr(<<>>), JStr(<<>>)),
   Body(JNum(NumInt(100)), U, JStr(Date0316), JStr(<<"i">>), JStr(<<"b">>), JStr(<<"c">>)),
   Body(JNum(NumInt(0)), U, U, U, U, U),
   Body(JNum(NumInt(101)), U, U, U, U, U),
   Body(JNum(NumHalf(1)), U, U, U, U, U),
   Body(JStr(<<"z">>), U, U, U, U, U),
   Body(JStr(ElevenDigits), U, U, U, U, U),
   Body(JNull, U, U, U, U, U),
   Body(U, JStr(TextHi), U, U, U, U),
   Body(JNum(NumInt(5)), JStr(LongText), U, U, U, U),
   Body(JNum(NumInt(5)), U, JStr(DateShort), U, U, U),
   Body(JNum(NumInt(5)), U, JStr(DateNoDay), U, U, U),
   Body(JNum(NumInt(5)), U, U, JStr(LongIv), U, U)}

PutBodies ==
  {EmptyBody,
   Body(JNum(NumInt(10)), U, U, U, U, U),
   Body(JStr(<<"9", "5">>), U, U, U, U, JStr(<<"c">>)),
   Body(U, JStr(TextHi), U, U, U, U),
   Body(U, U, JStr(Date0316), U, U, U),
   Body(U, U, U, JStr(<<>>), JStr(<<"b">>), U),
   Body(U, U, U, U, U, JStr(<<>>)),
   Body(JNum(NumInt(0)), U, U, U, U, U),
   Body(JNull, U, U, U, U, U),
   Body(JBool(TRUE), U, U, U, U, U),
   Body(JNum(NumHalf(7)), U, U, U, U, U),
   Body(U, JNull, U, U, U, U),
   Body(U, U, JStr(DateNoDay), U, U, U),
   Body(U, U, U, U, U, JNull)}

IdParams == {<<"1">>, <<"2">>, <<"z">>, <<"1", ".", "5">>, ElevenDigits}

Query(from, to, limit) == [from |-> from, to |-> to, limit |-> limit]

Queries ==
  {EmptyQuery,
   Query(U, U, JStr(<<"1">>)),
   Query(U, U, JStr(<<"0">>)),
   Query(U, U, JStr(<<"-", "5">>)),
   Query(U, U, JStr(<<"z">>)),
   Query(U, U, JStr(<<"0", ".", "5">>)),
   Query(U, U, JStr(<<"5", "0", "0", "0">>)),
   Query(JStr(Date0315), U, U),
   Query(U, JStr(Date0315), U),
   Query(JStr(<<>>), JStr(DateShort), U),
   Query(JStr(DateNoDay), U, U)}

(***************************************************************************)
(* Spec: the three variants, one connection, requests one after another.   *)
(***************************************************************************)
Variants == {"anon", "fetch", "client"}

NoCall == [arg |-> 0, done |-> FALSE, ret |-> <<>>]

Init ==
  /\ variant \in Variants
  /\ store = <<>>
  /\ nextId = 1
  /\ owner = <<>>
  /\ conn = [s \in Slots |-> Idle]
  /\ last = NoResponse
  /\ nreq = 0
  /\ call = NoCall

IdentityAnswers == {"resolved", "rejected", "threw"}

\* the steps of the three variants, over the requests given; puts are pairs
\* of a path id and a body
NextWith(slots, headers, posts, queries, puts, delIds) ==
  \/ \E body \in posts, today \in Todays : AnonPostEntries(body, today)
  \/ \E query \in queries : AnonGetEntries(query)
  \/ AnonGetStats
  \/ \E put \in puts : AnonPutEntry(put[1], put[2])
  \/ \E idParam \in delIds : AnonDeleteEntry(idParam)
  \/ \E slot \in slots, route \in Routes, hdr \in headers :
       getUserIdFromToken(slot, route, hdr)
  \/ \E slot \in slots, idout \in IdentityAnswers, body \in posts, today \in Todays :
       FetchPostEntries(slot, idout, body, today)
  \/ \E slot \in slots, idout \in IdentityAnswers, query \in queries :
       FetchGetEntries(slot, idout, query)
  \/ \E slot \in slots, idout \in IdentityAnswers : FetchGetStats(slot, idout)
  \/ \E slot \in slots, idout \in IdentityAnswers, put \in puts :
       FetchPutEntry(slot, idout, put[1], put[2])
  \/ \E slot \in slots, idout \in IdentityAnswers, idParam \in delIds :
       FetchDeleteEntry(slot, idout, idParam)
  \/ \E slot \in slots, route \in Routes, hdr \in headers :
       authenticate(slot, route, hdr)
  \/ \E slot \in slots, idout \in IdentityAnswers, body \in posts, today \in Todays :
       ClientPostEntries(slot, idout, body, today)
  \/ \E slot \in slots, idout \in IdentityAnswers, query \in queries :
       ClientGetEntries(slot, idout, query)
  \/ \E slot \in slots, idout \in IdentityAnswers : ClientGetStats(slot, idout)
  \/ \E slot \in slots, idout \in IdentityAnswers, put \in puts :
       ClientPutEntry(slot, idout, put[1], put[2])
  \/ \E slot \in slots, idout \in IdentityAnswers, idParam \in delIds :
       ClientDeleteEntry(slot, idout, idParam)

\* requests one after another, on one connection
OneSlot == {1}

AuthPosts ==
  {Body(JNum(NumInt(80)), JStr(TextHi), U, U, U, U),
   Body(JNum(NumInt(0)), U, U, U, U, U),
   Body(JNum(NumInt(5)), U, JStr(DateNoDay), U, U, U)}

AuthPuts == {EmptyBody, Body(JNum(NumInt(10)), U, U, U, U, U)}

AuthIds == {<<"1">>, <<"z">>}

Next == NextWith(OneSlot, Headers, AuthPosts, Queries, AuthIds \X AuthPuts, AuthIds)

Spec == Init /\ [][Next]_vars

(***************************************************************************)
(* SpecColor: scoreToColor on its own, over the integers around [0, 100].  *)
(***************************************************************************)
ColorMargin == 12

ColorScores == (0 - ColorMargin)..(TopScore + ColorMargin)

InitColor ==
  /\ variant = "client"
  /\ store = <<>>
  /\ nextId = 1
  /\ owner = <<>>
  /\ conn = [s \in Slots |-> Idle]
  /\ last = NoResponse
  /\ nreq = 0
  /\ call \in {[arg |-> s, done |-> FALSE, ret |-> <<>>] : s \in ColorScores}

CallScoreToColor ==
  /\ ~call.done
  /\ call' = [call EXCEPT !.done = TRUE, !.ret = scoreToColorChannels(call.arg)]
  /\ UNCHANGED <<variant, store, nextId, owner, conn, last, nreq>>

SpecColor == InitColor /\ [][CallScoreToColor]_vars

\* round(n / d) of the quotient of two naturals, a half going up
RoundQuotient(n, d) == (2 * n + d) \div (2 * d)

\* C10: for every integer score, scoreToColor clamps it to [0, 100] and returns
\* <<255, round(255 * score / 50), 0>> for a clamped score of at most 50 and
\* <<round(255 * (100 - score) / 50), 255, 0>> above 50.
C10_ChannelsAsStated ==
  call.done =>
    call.ret = IF Clamp(call.arg) <= MidScore
               THEN <<MaxChannel, RoundQuotient(MaxChannel * Clamp(call.arg), MidScore), 0>>
               ELSE <<RoundQuotient(MaxChannel * (TopScore - Clamp(call.arg)), MidScore),
                      MaxChannel, 0>>

(***************************************************************************)
(* Claims about authentication and errors, under Spec.                     *)
(***************************************************************************)
Authenticated == variant = "anon" \/ last.idout = "resolved"

\* "Bearer <token>": the scheme, one space, a token that is not empty
WellFormedBearer(hdr) ==
  hdr.present /\ Len(hdr.words) = 2 /\ hdr.words[1] = "Bearer" /\ hdr.words[2] # ""

\* C3: in the variants with authentication, a request in which a statement is
\* issued to the store has a well-formed bearer header and a token that the
\* identity service resolved in that request.
C3_FailsClosedAsStated ==
  (variant # "anon" /\ last.stmt) =>
    (WellFormedBearer(last.hdr) /\ last.idout = "resolved")

\* C4: every error ends in a JSON body {error: message}, with status 401 for
\* an auth failure and status 400 for every other error.
C4_ErrorStatusAsStated ==
  last.err # "none" =>
    /\ last.kind = "error"
    /\ last.msg # ""
    /\ last.status = IF last.err = "auth" THEN StatusUnauthorized ELSE StatusBadRequest

(***************************************************************************)
(* SpecScores: one caller; creates and updates over the score payloads.    *)
(***************************************************************************)
OneCaller == {Header(<<"Bearer", "tokA">>)}

OnlyScore(score) == Body(score, U, U, U, U, U)

ScorePosts ==
  {Body(JNum(NumInt(80)), JStr(TextHi), U, U, U, U),
   Body(JStr(<<"7">>), U, JStr(Date0314), U, U, U),
   Body(JBool(TRUE), JNull, U, U, U, U),
   Body(JNum(NumInt(100)), U, U, JStr(<<"i">>), JStr(<<"b">>), JStr(<<"c">>)),
   OnlyScore(JNum(NumInt(0))), OnlyScore(JNum(NumInt(101))),
   OnlyScore(JNum(NumInt(-3))), OnlyScore(JNum(NumHalf(1))),
   OnlyScore(JStr(<<"z">>)), OnlyScore(JStr(ElevenDigits)), OnlyScore(JNull),
   OnlyScore(JBool(FALSE)), OnlyScore(U)}

ScorePuts ==
  {<<"1">>} \X
    {OnlyScore(JNum(NumInt(10))), OnlyScore(JStr(<<"9", "5">>)), OnlyScore(JBool(TRUE)),
     OnlyScore(JNum(NumInt(0))), OnlyScore(JNum(NumInt(101))), OnlyScore(JNull),
     OnlyScore(JNum(NumHalf(7))), OnlyScore(JStr(<<"z">>)), OnlyScore(JStr(<<>>))}

NextScores ==
  NextWith(OneSlot, OneCaller, PostBodies \cup ScorePosts, {EmptyQuery}, ScorePuts,
           {<<"1">>})

SpecScores == Init /\ [][NextScores]_vars

\* C2: every stored entry has an integer score from 1 to 100, whatever the
\* create, update and delete requests before it carried.
C2_ScoresInRange ==
  \A i \in 1..Len(store) :
    store[i].score \in Int /\ MinScore <= store[i].score /\ store[i].score <= MaxScore

\* an entry whose score an update has set from the boolean true
C2_Witness ==
  /\ last.route = "put" /\ last.kind = "row"
  /\ last.req.body.score = JBool(TRUE)
  /\ \E i \in 1..Len(store) : store[i].score = 1

(***************************************************************************)
(* SpecUpdate: one caller; updates over the bodies, of two entries.        *)
(***************************************************************************)
UpdatePosts ==
  {Body(JNum(NumInt(80)), JStr(TextHi), U, U, U, U),
   Body(JNum(NumInt(100)), U, JStr(Date0316), JStr(<<"i">>), JStr(<<"b">>), JStr(<<"c">>))}

NextUpdate ==
  NextWith(OneSlot, OneCaller, UpdatePosts, {EmptyQuery},
           {<<"1">>, <<"2">>} \X PutBodies, {<<"1">>})

SpecUpdate == Init /\ [][NextUpdate]_vars

\* a request completes in this step
Completes == last'.seq = last.seq + 1

IdNumber(idParam) == Number(JStr(idParam))

Columns == {"score", "text", "date", "iv", "badge", "color"}

\* the columns of the variant that a body gives
Present(body) ==
  {f \in (IF variant = "client" THEN Columns ELSE {"score", "text", "date"}) :
     body[f].ty # "undefined"}

\* the columns an update may change: those present, and in the client variant
\* the color when the score is present and the color is not
Named(body) ==
  Present(body)
    \cup (IF variant = "client" /\ body.score.ty # "undefined"
             /\ body.color.ty = "undefined"
          THEN {"color"} ELSE {})

\* C6: a successful update of entry id changes only the columns its body
\* names (and the color, recomputed from the new score, in the client variant
\* when the score is present and the color is not); the entry's other columns,
\* its id and user_id, and every other entry keep their values.
C6_UpdateFrame ==
  [][(Completes /\ last'.route = "put" /\ last'.kind = "row") =>
       /\ Len(store') = Len(store)
       /\ \A i \in 1..Len(store) :
            /\ store'[i].id = store[i].id
            /\ store'[i].user_id = store[i].user_id
            /\ (store[i].id # IdNumber(last'.req.id).v => store'[i] = store[i])
            /\ \A f \in Columns \ Named(last'.req.body) : store'[i][f] = store[i][f]
            /\ ("color" \in Named(last'.req.body) \ Present(last'.req.body)
                  /\ store[i].id = IdNumber(last'.req.id).v
                => store'[i].color = SqlText(scoreToColor(store'[i].score)))]_vars

\* the client variant has updated the score of one of two entries, no color given
C6_Witness ==
  /\ variant = "client" /\ Len(store) = 2
  /\ last.route = "put" /\ last.kind = "row"
  /\ last.req.body.score.ty # "undefined" /\ last.req.body.color.ty = "undefined"
  /\ last.rows[1].color = SqlText(scoreToColor(last.rows[1].score))

(***************************************************************************)
(* SpecIds: one caller; updates and deletes over the path ids.             *)
(***************************************************************************)
MinusOne == <<"-", "1">>

IdsPuts ==
  (IdParams \cup {MinusOne})
    \X {EmptyBody, Body(U, U, U, U, U, JStr(<<"c">>)), OnlyScore(JNum(NumInt(10)))}

NextIds ==
  NextWith(OneSlot, OneCaller, UpdatePosts, {EmptyQuery}, IdsPuts,
           IdParams \cup {MinusOne})

SpecIds == Init /\ [][NextIds]_vars

\* an update past authentication, of a body that gives no column, completes
EmptyUpdateCompletes ==
  /\ Completes /\ last'.route = "put"
  /\ (variant = "anon" \/ last'.idout = "resolved")
  /\ Present(last'.req.body) = {}

\* C7, as stated: an update whose body gives no updatable field fails with
\* status 400 and the message "No fields to update" and leaves the store
\* unchanged, whatever the id in the path.
C7_NoFieldsAsStated ==
  [][EmptyUpdateCompletes =>
       /\ last'.status = StatusBadRequest /\ last'.kind = "error"
       /\ last'.msg = "No fields to update"
       /\ store' = store]_vars

\* C7, amended: such an update fails with status 400, issues no statement and
\* leaves the store unchanged; the message is "No fields to update" when the
\* id in the path is an integer and "Invalid id" when it is not.
C7_NoFieldsRejected ==
  [][EmptyUpdateCompletes =>
       /\ last'.status = StatusBadRequest /\ last'.kind = "error"
       /\ last'.msg = IF IsInteger(IdNumber(last'.req.id)) THEN "No fields to update"
                      ELSE "Invalid id"
       /\ ~last'.stmt
       /\ store' = store]_vars

\* an update without fields was refused for its id, entries being stored
C7_Witness ==
  /\ last.route = "put" /\ Authenticated
  /\ Present(last.req.body) = {}
  /\ ~IsInteger(IdNumber(last.req.id))
  /\ last.msg = "Invalid id"
  /\ store # <<>>

\* no stored entry has the id that idParam writes
Absent(idParam) ==
  \A i \in 1..Len(store) :
    ~(IdNumber(idParam).k = "int" /\ store[i].id = IdNumber(idParam).v)

\* a delete past authentication, for an id that names no stored entry, completes
DeleteOfAbsentCompletes ==
  /\ Completes /\ last'.route = "delete"
  /\ (variant = "anon" \/ last'.idout = "resolved")
  /\ Absent(last'.req.id)

\* C8, as stated: a delete for an id that names no stored entry reports
\* success, with no error, and leaves the store unchanged.
C8_DeleteAbsentAsStated ==
  [][DeleteOfAbsentCompletes =>
       /\ last'.status = StatusOk /\ last'.kind = "success" /\ last'.err = "none"
       /\ store' = store]_vars

\* C8, amended: a delete for an id that is an integer of the id column's
\* range and names no stored entry reports success, with no error, and leaves
\* the store unchanged.
C8_DeleteAbsentInteger ==
  [][(DeleteOfAbsentCompletes /\ IdNumber(last'.req.id).k = "int") =>
       /\ last'.status = StatusOk /\ last'.kind = "success" /\ last'.err = "none"
       /\ store' = store]_vars

\* a delete has succeeded for an id that was never assigned, an entry being stored
C8_Witness ==
  /\ last.route = "delete" /\ last.kind = "success" /\ Authenticated
  /\ IdNumber(last.req.id).k = "int" /\ IdNumber(last.req.id).v >= nextId
  /\ Len(store) = 1

(***************************************************************************)
(* SpecIso: two callers, A and B, whose requests overlap: a request waits  *)
(* for the identity service while others start and complete.               *)
(***************************************************************************)
TwoCallers == {Header(<<"Bearer", "tokA">>), Header(<<"Bearer", "tokB">>)}

IsoPosts == {Body(JNum(NumInt(80)), JStr(TextHi), U, U, U, U)}

IsoPuts == {<<"1">>, <<"2">>} \X {OnlyScore(JNum(NumInt(10)))}

NextIso ==
  NextWith(Slots, TwoCallers, IsoPosts, {EmptyQuery}, IsoPuts, {<<"1">>, <<"2">>})

SpecIso == Init /\ [][NextIso]_vars

\* the stored entries that requests resolved to user created
EntriesOf(user) == SelectSeq(store, LAMBDA r : owner[r.id] = user)

\* C1: in the variants with authentication, whatever the order in which the
\* requests of two identities start and complete: a list returns only entries
\* that requests of the caller's identity created, the stats are those of the
\* caller's entries alone, and an update or delete leaves every entry that
\* another identity created stored and unchanged.
C1_Isolation ==
  /\ [](variant # "anon" =>
          /\ (last.kind = "rows" =>
                \A i \in 1..Len(last.rows) : owner[last.rows[i].id] = last.user)
          /\ (last.kind = "stats" => last.stats = Aggregates(EntriesOf(last.user))))
  /\ [][(variant # "anon" /\ Completes /\ last'.route \in {"put", "delete"}) =>
          \A i \in 1..Len(store) :
            owner[store[i].id] # last'.user =>
              \E j \in 1..Len(store') : store'[j] = store[i]]_vars

\* B's delete of the id of A's entry has succeeded and the entry is stored,
\* while a request of A waits for the identity service
C1_Witness ==
  /\ variant # "anon"
  /\ last.route = "delete" /\ last.kind = "success" /\ last.user = "B"
  /\ \E i \in 1..Len(store) :
       store[i].id = IdNumber(last.req.id).v /\ owner[store[i].id] = "A"
  /\ \E slot \in Slots : conn[slot].pc = "auth" /\ UserOf(conn[slot].token) = "A"

(***************************************************************************)
(* SpecBulk: one caller, who has created many entries already: one fewer   *)
(* than the default limit, as many, or more than the greatest limit.  The  *)
(* entries are those the variant's own create stores for BulkBody; nreq    *)
(* counts the requests from then on.                                       *)
(***************************************************************************)
BulkBody == OnlyScore(JNum(NumInt(MidScore)))

BulkUser(v) == IF v = "anon" THEN NoUser ELSE "A"

BulkRow(v, id) ==
  (IF v = "client" THEN ClientPostBody(<<>>, id, BulkUser(v), BulkBody, Date0315)
   ELSE PostBody(<<>>, id, v = "fetch", BulkUser(v), BulkBody, Date0315)).rows[1]

BulkSizes == {DefaultLimit - 1, DefaultLimit, MaxLimit + 1}

InitBulk ==
  /\ variant \in Variants
  /\ \E n \in BulkSizes :
       /\ store = [id \in 1..n |-> BulkRow(variant, id)]
       /\ nextId = n + 1
       /\ owner = [id \in 1..n |-> BulkUser(variant)]
  /\ conn = [s \in Slots |-> Idle]
  /\ last = NoResponse
  /\ nreq = 0
  /\ call = NoCall

BulkPosts ==
  {Body(JStr(<<"7">>), JStr(TextHi), JStr(Date0314), JStr(<<>>), JStr(<<>>), JStr(<<>>)),
   Body(JNum(NumInt(100)), U, JStr(Date0316), JStr(<<"i">>), JStr(<<"b">>), JStr(<<"c">>))}

BulkQueries ==
  {EmptyQuery,
   Query(U, U, JStr(<<"5", "0", "0", "0">>)),
   Query(U, U, JStr(<<"0">>)),
   Query(U, U, JStr(<<"-", "5">>)),
   Query(U, U, JStr(<<"z">>)),
   Query(U, U, JStr(<<"0", ".", "5">>))}

NextBulk ==
  NextWith(OneSlot, OneCaller, BulkPosts, BulkQueries, {<<<<"1">>, EmptyBody>>},
           {<<"z">>})

SpecBulk == InitBulk /\ [][NextBulk]_vars

\* C9: whatever the limit parameter, the row limit a list uses is 365 when
\* no limit is given and is never greater than 1000, and a list response
\* never holds more than 1000 entries.
C9_RowLimit ==
  (last.route = "list" /\ last.stmt) =>
    /\ last.lim.k \in {"int", "half"}
    /\ (last.lim.k = "int" => last.lim.v <= MaxLimit)
    /\ (last.lim.k = "half" => last.lim.v < MaxLimit)
    /\ (last.req.query.limit.ty = "undefined" => last.lim = NumInt(DefaultLimit))
    /\ Len(last.rows) <= MaxLimit

\* a list with limit=5000 over more than 1000 entries has returned 1000
C9_Witness ==
  /\ last.route = "list" /\ last.kind = "rows"
  /\ last.req.query.limit = JStr(<<"5", "0", "0", "0">>)
  /\ Len(store) > MaxLimit
  /\ Len(last.rows) = MaxLimit

\* the request before was a successful create, and an unfiltered list by the
\* same identity completes in this step
ListAfterCreate ==
  /\ last.route = "post" /\ last.kind = "row"
  /\ Completes /\ last'.route = "list"
  /\ (variant = "anon" \/ last'.idout = "resolved")
  /\ last'.user = last.user
  /\ last'.req.query = EmptyQuery

\* the column holds the string that the client sent
EchoesText(col, val) == ~col.null /\ val = JStr(col.str)

\* every field that the body supplies equals the entry's
Echoes(r, body) ==
  /\ body.score = JNum(NumInt(r.score))
  /\ (body.text.ty # "undefined" => EchoesText(r.text, body.text))
  /\ (body.date.ty # "undefined" =>
        body.date.ty = "string" /\ DateFields(body.date.str) = r.date)
  /\ (variant = "client" =>
        \A f \in {"iv", "badge", "color"} :
          body[f].ty # "undefined" => EchoesText(r[f], body[f]))

\* C5, as stated: a successful create followed immediately by an unfiltered
\* list by the same identity returns the created entry, with the id the store
\* assigned and with every supplied field equal to the value sent.
C5_CreateThenListAsStated ==
  [][ListAfterCreate =>
       /\ last'.kind = "rows"
       /\ \E i \in 1..Len(last'.rows) :
            /\ last'.rows[i].id = last.rows[1].id
            /\ Echoes(last'.rows[i], last.req.body)]_vars

\* the caller's entries that the list's order puts before r
Before(r) ==
  {i \in 1..Len(store) :
     /\ (variant # "anon" => store[i].user_id = r.user_id)
     /\ \/ ~DateLeq(store[i].date, r.date)
        \/ store[i].date = r.date /\ store[i].id > r.id}

\* what create stores for a supplied string that may be empty, given the
\* value it stores otherwise
StoredOr(val, otherwise) == IF Truthy(val) THEN SqlText(val.str) ELSE otherwise

\* the entry that create stores for body, as far as body decides it
StoredFor(r, body) ==
  /\ Number(body.score).k = "int" /\ r.score = Number(body.score).v
  /\ r.text = StoredOr(body.text, SqlText(<<>>))
  /\ (body.date.ty # "undefined" => r.date = DateFields(body.date.str))
  /\ IF variant = "client"
     THEN /\ r.iv = StoredOr(body.iv, SqlNull)
          /\ r.badge = StoredOr(body.badge, SqlNull)
          /\ r.color = StoredOr(body.color, SqlText(scoreToColor(r.score)))
     ELSE r.iv = SqlNull /\ r.badge = SqlNull /\ r.color = SqlNull

\* C5, amended: the list returns the created entry, as create returned it,
\* exactly when fewer than 365 of the caller's entries come before it in the
\* order date descending, id descending; the entry has the id the store
\* assigned, the score sent converted to a number, the text and the date sent
\* (the empty text when none was sent), and in the client variant the iv, the
\* badge and the color sent, where an empty iv or badge is stored as null and
\* an empty color as the color computed from the score.
C5_CreateThenList ==
  [][ListAfterCreate =>
       /\ last'.kind = "rows"
       /\ last.rows[1].id = nextId - 1
       /\ StoredFor(last.rows[1], last.req.body)
       /\ (Cardinality(Before(last.rows[1])) < DefaultLimit
             <=> \E i \in 1..Len(last'.rows) : last'.rows[i] = last.rows[1])]_vars

\* after 364 entries of a later date, an entry was created and the list that
\* followed returned it in the last of its 365 places
C5_Witness ==
  /\ last.seq = 2 /\ last.route = "list" /\ last.kind = "rows"
  /\ last.req.query = EmptyQuery
  /\ nextId = DefaultLimit + 1
  /\ Len(last.rows) = DefaultLimit
  /\ last.rows[DefaultLimit].id = DefaultLimit

====
